---------------------------- MODULE Spec2Model ----------------------------
(***************************************************************************)
(* A model of agatexml/table_html.py: the colspan/rowspan expansion        *)
(* (expand_colspan_rowspan) as a state machine that steps once per loop    *)
(* iteration, and the table assembler (from_html) that steps once per      *)
(* requested table identifier.                                             *)
(*                                                                         *)
(* Python strings are sequences of one-character strings, so that          *)
(* str.strip, the whitespace regex and int() are computed and not assumed. *)
(* A DOM cell is a record [name, text, rowspan, colspan]; an attribute     *)
(* that is absent from the tag has the value None.  A <tr> is the sequence *)
(* of its child nodes.                                                     *)
(***************************************************************************)
EXTENDS Integers, Sequences, FiniteSets, TLC

VARIABLES
    rows,            \* expand_colspan_rowspan: the argument, a list of <tr>
    pc,              \* "run" | "done" | "raised"
    ri,              \* number of <tr> the for loop has consumed
    remainder,       \* list of <<index, text, nrows>>
    all_texts,       \* list of rows, each a list of text
    exc,             \* the exception that left expand_colspan_rowspan
    html_soup,       \* from_html: the parsed document, a list of <table>
    table_identifier,\* from_html: the argument as passed
    row_limit,       \* from_html: the argument
    header,          \* from_html: the argument
    has_column_names,\* from_html: whether kwargs holds 'column_names'
    hpc,             \* "select" | "build" | "returned" | "raised"
    i,               \* number of identifiers the loop has consumed
    table_html,      \* the <table> the current pass selected
    head_rows,       \* the current pass's lists of <tr>
    body_rows,
    foot_rows,
    tables,          \* the OrderedDict, a list of <<key, table>>
    result,          \* what from_html returned
    hexc             \* the exception that left from_html

vars == <<rows, pc, ri, remainder, all_texts, exc, html_soup, table_identifier,
          row_limit, header, has_column_names, hpc, i, table_html, head_rows,
          body_rows, foot_rows, tables, result, hexc>>

expandVars == <<rows, pc, ri, remainder, all_texts, exc>>

htmlVars == <<html_soup, table_identifier, row_limit, header, has_column_names,
              hpc, i, table_html, head_rows, body_rows, foot_rows, tables,
              result, hexc>>

-----------------------------------------------------------------------------
(* Python values *)

\* The value of an attribute the tag does not carry (obj.get returns None).
\* No string of the model equals it: a string holds one-character elements.
None == <<"None">>

NoException == "none"

\* A string is the sequence of its characters.  A character that has no
\* notation in a TLA+ string is written by its code point, as in "U+00A0".

\* The characters str.strip() drops and \s matches: those of str.isspace().
Whitespace ==
    {"\t", "\n", "U+000B", "\f", "\r", "U+001C", "U+001D", "U+001E",
     "U+001F", " ", "U+0085", "U+00A0", "U+1680", "U+2000", "U+2001",
     "U+2002", "U+2003", "U+2004", "U+2005", "U+2006", "U+2007", "U+2008",
     "U+2009", "U+200A", "U+2028", "U+2029", "U+202F", "U+205F", "U+3000"}

\* The characters int() takes for whitespace around the number.
IntWhitespace == Whitespace \ {"U+001C", "U+001D", "U+001E", "U+001F"}

Newlines == {"\n", "\r"}

DigitChars == <<"0", "1", "2", "3", "4", "5", "6", "7", "8", "9">>

\* The decimal digits of the other scripts, which int() reads as well: the
\* d-th set holds the digits of value d - 1 (Unicode category Nd).
UnicodeDigits == <<
    {"U+0660", "U+06F0", "U+07C0", "U+0966", "U+09E6", "U+0A66", "U+0AE6",
     "U+0B66", "U+0BE6", "U+0C66", "U+0CE6", "U+0D66", "U+0DE6", "U+0E50",
     "U+0ED0", "U+0F20", "U+1040", "U+1090", "U+17E0", "U+1810", "U+1946",
     "U+19D0", "U+1A80", "U+1A90", "U+1B50", "U+1BB0", "U+1C40", "U+1C50",
     "U+A620", "U+A8D0", "U+A900", "U+A9D0", "U+A9F0", "U+AA50", "U+ABF0",
     "U+FF10", "U+104A0", "U+10D30", "U+11066", "U+110F0", "U+11136",
     "U+111D0", "U+112F0", "U+11450", "U+114D0", "U+11650", "U+116C0",
     "U+11730", "U+118E0", "U+11950", "U+11C50", "U+11D50", "U+11DA0",
     "U+16A60", "U+16AC0", "U+16B50", "U+1D7CE", "U+1D7D8", "U+1D7E2",
     "U+1D7EC", "U+1D7F6", "U+1E140", "U+1E2F0", "U+1E950", "U+1FBF0"},
    {"U+0661", "U+06F1", "U+07C1", "U+0967", "U+09E7", "U+0A67", "U+0AE7",
     "U+0B67", "U+0BE7", "U+0C67", "U+0CE7", "U+0D67", "U+0DE7", "U+0E51",
     "U+0ED1", "U+0F21", "U+1041", "U+1091", "U+17E1", "U+1811", "U+1947",
     "U+19D1", "U+1A81", "U+1A91", "U+1B51", "U+1BB1", "U+1C41", "U+1C51",
     "U+A621", "U+A8D1", "U+A901", "U+A9D1", "U+A9F1", "U+AA51", "U+ABF1",
     "U+FF11", "U+104A1", "U+10D31", "U+11067", "U+110F1", "U+11137",
     "U+111D1", "U+112F1", "U+11451", "U+114D1", "U+11651", "U+116C1",
     "U+11731", "U+118E1", "U+11951", "U+11C51", "U+11D51", "U+11DA1",
     "U+16A61", "U+16AC1", "U+16B51", "U+1D7CF", "U+1D7D9", "U+1D7E3",
     "U+1D7ED", "U+1D7F7", "U+1E141", "U+1E2F1", "U+1E951", "U+1FBF1"},
    {"U+0662", "U+06F2", "U+07C2", "U+0968", "U+09E8", "U+0A68", "U+0AE8",
     "U+0B68", "U+0BE8", "U+0C68", "U+0CE8", "U+0D68", "U+0DE8", "U+0E52",
     "U+0ED2", "U+0F22", "U+1042", "U+1092", "U+17E2", "U+1812", "U+1948",
     "U+19D2", "U+1A82", "U+1A92", "U+1B52", "U+1BB2", "U+1C42", "U+1C52",
     "U+A622", "U+A8D2", "U+A902", "U+A9D2", "U+A9F2", "U+AA52", "U+ABF2",
     "U+FF12", "U+104A2", "U+10D32", "U+11068", "U+110F2", "U+11138",
     "U+111D2", "U+112F2", "U+11452", "U+114D2", "U+11652", "U+116C2",
     "U+11732", "U+118E2", "U+11952", "U+11C52", "U+11D52", "U+11DA2",
     "U+16A62", "U+16AC2", "U+16B52", "U+1D7D0", "U+1D7DA", "U+1D7E4",
     "U+1D7EE", "U+1D7F8", "U+1E142", "U+1E2F2", "U+1E952", "U+1FBF2"},
    {"U+0663", "U+06F3", "U+07C3", "U+0969", "U+09E9", "U+0A69", "U+0AE9",
     "U+0B69", "U+0BE9", "U+0C69", "U+0CE9", "U+0D69", "U+0DE9", "U+0E53",
     "U+0ED3", "U+0F23", "U+1043", "U+1093", "U+17E3", "U+1813", "U+1949",
     "U+19D3", "U+1A83", "U+1A93", "U+1B53", "U+1BB3", "U+1C43", "U+1C53",
     "U+A623", "U+A8D3", "U+A903", "U+A9D3", "U+A9F3", "U+AA53", "U+ABF3",
     "U+FF13", "U+104A3", "U+10D33", "U+11069", "U+110F3", "U+11139",
     "U+111D3", "U+112F3", "U+11453", "U+114D3", "U+11653", "U+116C3",
     "U+11733", "U+118E3", "U+11953", "U+11C53", "U+11D53", "U+11DA3",
     "U+16A63", "U+16AC3", "U+16B53", "U+1D7D1", "U+1D7DB", "U+1D7E5",
     "U+1D7EF", "U+1D7F9", "U+1E143", "U+1E2F3", "U+1E953", "U+1FBF3"},
    {"U+0664", "U+06F4", "U+07C4", "U+096A", "U+09EA", "U+0A6A", "U+0AEA",
     "U+0B6A", "U+0BEA", "U+0C6A", "U+0CEA", "U+0D6A", "U+0DEA", "U+0E54",
     "U+0ED4", "U+0F24", "U+1044", "U+1094", "U+17E4", "U+1814", "U+194A",
     "U+19D4", "U+1A84", "U+1A94", "U+1B54", "U+1BB4", "U+1C44", "U+1C54",
     "U+A624", "U+A8D4", "U+A904", "U+A9D4", "U+A9F4", "U+AA54", "U+ABF4",
     "U+FF14", "U+104A4", "U+10D34", "U+1106A", "U+110F4", "U+1113A",
     "U+111D4", "U+112F4", "U+11454", "U+114D4", "U+11654", "U+116C4",
     "U+11734", "U+118E4", "U+11954", "U+11C54", "U+11D54", "U+11DA4",
     "U+16A64", "U+16AC4", "U+16B54", "U+1D7D2", "U+1D7DC", "U+1D7E6",
     "U+1D7F0", "U+1D7FA", "U+1E144", "U+1E2F4", "U+1E954", "U+1FBF4"},
    {"U+0665", "U+06F5", "U+07C5", "U+096B", "U+09EB", "U+0A6B", "U+0AEB",
     "U+0B6B", "U+0BEB", "U+0C6B", "U+0CEB", "U+0D6B", "U+0DEB", "U+0E55",
     "U+0ED5", "U+0F25", "U+1045", "U+1095", "U+17E5", "U+1815", "U+194B",
     "U+19D5", "U+1A85", "U+1A95", "U+1B55", "U+1BB5", "U+1C45", "U+1C55",
     "U+A625", "U+A8D5", "U+A905", "U+A9D5", "U+A9F5", "U+AA55", "U+ABF5",
     "U+FF15", "U+104A5", "U+10D35", "U+1106B", "U+110F5", "U+1113B",
     "U+111D5", "U+112F5", "U+11455", "U+114D5", "U+11655", "U+116C5",
     "U+11735", "U+118E5", "U+11955", "U+11C55", "U+11D55", "U+11DA5",
     "U+16A65", "U+16AC5", "U+16B55", "U+1D7D3", "U+1D7DD", "U+1D7E7",
     "U+1D7F1", "U+1D7FB", "U+1E145", "U+1E2F5", "U+1E955", "U+1FBF5"},
    {"U+0666", "U+06F6", "U+07C6", "U+096C", "U+09EC", "U+0A6C", "U+0AEC",
     "U+0B6C", "U+0BEC", "U+0C6C", "U+0CEC", "U+0D6C", "U+0DEC", "U+0E56",
     "U+0ED6", "U+0F26", "U+1046", "U+1096", "U+17E6", "U+1816", "U+194C",
     "U+19D6", "U+1A86", "U+1A96", "U+1B56", "U+1BB6", "U+1C46", "U+1C56",
     "U+A626", "U+A8D6", "U+A906", "U+A9D6", "U+A9F6", "U+AA56", "U+ABF6",
     "U+FF16", "U+104A6", "U+10D36", "U+1106C", "U+110F6", "U+1113C",
     "U+111D6", "U+112F6", "U+11456", "U+114D6", "U+11656", "U+116C6",
     "U+11736", "U+118E6", "U+11956", "U+11C56", "U+11D56", "U+11DA6",
     "U+16A66", "U+16AC6", "U+16B56", "U+1D7D4", "U+1D7DE", "U+1D7E8",
     "U+1D7F2", "U+1D7FC", "U+1E146", "U+1E2F6", "U+1E956", "U+1FBF6"},
    {"U+0667", "U+06F7", "U+07C7", "U+096D", "U+09ED", "U+0A6D", "U+0AED",
     "U+0B6D", "U+0BED", "U+0C6D", "U+0CED", "U+0D6D", "U+0DED", "U+0E57",
     "U+0ED7", "U+0F27", "U+1047", "U+1097", "U+17E7", "U+1817", "U+194D",
     "U+19D7", "U+1A87", "U+1A97", "U+1B57", "U+1BB7", "U+1C47", "U+1C57",
     "U+A627", "U+A8D7", "U+A907", "U+A9D7", "U+A9F7", "U+AA57", "U+ABF7",
     "U+FF17", "U+104A7", "U+10D37", "U+1106D", "U+110F7", "U+1113D",
     "U+111D7", "U+112F7", "U+11457", "U+114D7", "U+11657", "U+116C7",
     "U+11737", "U+118E7", "U+11957", "U+11C57", "U+11D57", "U+11DA7",
     "U+16A67", "U+16AC7", "U+16B57", "U+1D7D5", "U+1D7DF", "U+1D7E9",
     "U+1D7F3", "U+1D7FD", "U+1E147", "U+1E2F7", "U+1E957", "U+1FBF7"},
    {"U+0668", "U+06F8", "U+07C8", "U+096E", "U+09EE", "U+0A6E", "U+0AEE",
     "U+0B6E", "U+0BEE", "U+0C6E", "U+0CEE", "U+0D6E", "U+0DEE", "U+0E58",
     "U+0ED8", "U+0F28", "U+1048", "U+1098", "U+17E8", "U+1818", "U+194E",
     "U+19D8", "U+1A88", "U+1A98", "U+1B58", "U+1BB8", "U+1C48", "U+1C58",
     "U+A628", "U+A8D8", "U+A908", "U+A9D8", "U+A9F8", "U+AA58", "U+ABF8",
     "U+FF18", "U+104A8", "U+10D38", "U+1106E", "U+110F8", "U+1113E",
     "U+111D8", "U+112F8", "U+11458", "U+114D8", "U+11658", "U+116C8",
     "U+11738", "U+118E8", "U+11958", "U+11C58", "U+11D58", "U+11DA8",
     "U+16A68", "U+16AC8", "U+16B58", "U+1D7D6", "U+1D7E0", "U+1D7EA",
     "U+1D7F4", "U+1D7FE", "U+1E148", "U+1E2F8", "U+1E958", "U+1FBF8"},
    {"U+0669", "U+06F9", "U+07C9", "U+096F", "U+09EF", "U+0A6F", "U+0AEF",
     "U+0B6F", "U+0BEF", "U+0C6F", "U+0CEF", "U+0D6F", "U+0DEF", "U+0E59",
     "U+0ED9", "U+0F29", "U+1049", "U+1099", "U+17E9", "U+1819", "U+194F",
     "U+19D9", "U+1A89", "U+1A99", "U+1B59", "U+1BB9", "U+1C49", "U+1C59",
     "U+A629", "U+A8D9", "U+A909", "U+A9D9", "U+A9F9", "U+AA59", "U+ABF9",
     "U+FF19", "U+104A9", "U+10D39", "U+1106F", "U+110F9", "U+1113F",
     "U+111D9", "U+112F9", "U+11459", "U+114D9", "U+11659", "U+116C9",
     "U+11739", "U+118E9", "U+11959", "U+11C59", "U+11D59", "U+11DA9",
     "U+16A69", "U+16AC9", "U+16B59", "U+1D7D7", "U+1D7E1", "U+1D7EB",
     "U+1D7F5", "U+1D7FF", "U+1E149", "U+1E2F9", "U+1E959", "U+1FBF9"} >>

IsAsciiDigit(c) == \E d \in 1..Len(DigitChars) : DigitChars[d] = c

IsDigit(c) == IsAsciiDigit(c) \/ \E d \in 1..Len(UnicodeDigits) : c \in UnicodeDigits[d]

DigitValue(c) ==
    IF IsAsciiDigit(c)
    THEN (CHOOSE d \in 1..Len(DigitChars) : DigitChars[d] = c) - 1
    ELSE (CHOOSE d \in 1..Len(UnicodeDigits) : c \in UnicodeDigits[d]) - 1

\* str.strip(): drop the leading and the trailing whitespace.
RECURSIVE LStrip(_, _)
LStrip(s, set) == IF s # <<>> /\ Head(s) \in set THEN LStrip(Tail(s), set) ELSE s

RECURSIVE RStrip(_, _)
RStrip(s, set) ==
    IF s # <<>> /\ s[Len(s)] \in set
    THEN RStrip(SubSeq(s, 1, Len(s) - 1), set)
    ELSE s

Strip(s) == RStrip(LStrip(s, Whitespace), Whitespace)

\* The length of the longest prefix of s whose characters are all in set.
RECURSIVE RunLength(_, _)
RunLength(s, set) ==
    IF s # <<>> /\ Head(s) \in set THEN 1 + RunLength(Tail(s), set) ELSE 0

DropFirst(s, n) == SubSeq(s, n + 1, Len(s))

\* regex.sub(" ", s) for _RE_WHITESPACE = [\r\n]+|\s{2,}: scanning from the
\* left, the first alternative that matches at a position wins and is greedy.
RECURSIVE SubWhitespace(_)
SubWhitespace(s) ==
    IF s = <<>> THEN <<>>
    ELSE IF RunLength(s, Newlines) >= 1
    THEN <<" ">> \o SubWhitespace(DropFirst(s, RunLength(s, Newlines)))
    ELSE IF RunLength(s, Whitespace) >= 2
    THEN <<" ">> \o SubWhitespace(DropFirst(s, RunLength(s, Whitespace)))
    ELSE <<Head(s)>> \o SubWhitespace(Tail(s))

_remove_whitespace(s) == SubWhitespace(Strip(s))

text_getter(obj) == obj.text

attr_getter(obj, attr) == obj[attr]

equals_tag(obj, tag) == obj.name = tag

\* find_all(("td", "th"), recursive=False): the direct td and th children.
IsCellNode(node) == node.name \in {"td", "th"}

parse_td(row_html) == SelectSeq(row_html, IsCellNode)

\* The value of a run of digits, most significant first.
RECURSIVE DigitsValue(_, _)
DigitsValue(s, acc) ==
    IF s = <<>> THEN acc ELSE DigitsValue(Tail(s), 10 * acc + DigitValue(Head(s)))

\* Digits with single underscores between them: no underscore comes first,
\* last or next to another one.
Grouped(s) ==
    /\ s # <<>>
    /\ \A k \in 1..Len(s) : IsDigit(s[k]) \/ s[k] = "_"
    /\ s[1] # "_" /\ s[Len(s)] # "_"
    /\ \A k \in 1..(Len(s) - 1) : ~(s[k] = "_" /\ s[k + 1] = "_")

\* The messages of the ValueError of int().
InvalidLiteral == "invalid literal for int()"

ExceedsLimit == "Exceeds the limit (4300 digits) for integer string conversion"

\* The longest prefix of s made of digits and underscores: what int() scans
\* as the number.
DigitRun(s) ==
    LET stops == {k \in 1..Len(s) : ~(IsDigit(s[k]) \/ s[k] = "_")}
    IN  IF stops = {} THEN s
        ELSE SubSeq(s, 1, (CHOOSE k \in stops : \A j \in stops : k <= j) - 1)

\* int(s) for a str: the whitespace around it is dropped, one sign is
\* allowed, then decimal digits of any script, which single underscores may
\* group.  [ok |-> FALSE] stands for the ValueError, message for what it
\* says: a run of digits that is empty or badly grouped is an invalid
\* literal; a well-grouped run of more than 4300 digits (the interpreter's
\* limit) exceeds the limit, whatever follows it; anything after a shorter
\* run is an invalid literal.
IntOfStr(s) ==
    LET t == RStrip(LStrip(s, IntWhitespace), IntWhitespace)
        signed == t # <<>> /\ Head(t) \in {"+", "-"}
        body == IF signed THEN Tail(t) ELSE t
        run == DigitRun(body)
        digits == SelectSeq(run, IsDigit)
    IN  IF ~Grouped(run)
        THEN [ok |-> FALSE, val |-> 0, message |-> InvalidLiteral]
        ELSE IF Len(digits) > 4300
        THEN [ok |-> FALSE, val |-> 0, message |-> ExceedsLimit]
        ELSE IF Len(run) # Len(body)
        THEN [ok |-> FALSE, val |-> 0, message |-> InvalidLiteral]
        ELSE [ok |-> TRUE,
              val |-> IF signed /\ Head(t) = "-"
                      THEN 0 - DigitsValue(digits, 0)
                      ELSE DigitsValue(digits, 0),
              message |-> ""]

\* int(attr_getter(td, attr) or 1): None and the empty string are falsy.
SpanOf(td, attr) ==
    LET v == attr_getter(td, attr)
    IN  IF v = None \/ v = <<>> THEN [ok |-> TRUE, val |-> 1, message |-> ""]
        ELSE IntOfStr(v)

-----------------------------------------------------------------------------
(* Values of from_html *)

\* A table identifier: a Python int, a str, or a value of another type.
IntId(n) == [type |-> "int", int |-> n, str |-> <<>>]

StrId(name) == [type |-> "str", int |-> 0, str |-> name]

OtherId(repr) == [type |-> "other", int |-> 0, str |-> repr]

NoId == [type |-> "none", int |-> 0, str |-> <<>>]

\* An exception: its type, the line that raises it, the value its message names.
Exc(type, line, message, arg) ==
    [type |-> type, line |-> line, message |-> message, arg |-> arg]

NoExc == Exc("none", 0, "", NoId)

\* row_limit: None, or an int.
NoLimit == [none |-> TRUE, n |-> 0]

Limit(n) == [none |-> FALSE, n |-> n]

\* A <table>: the <tr> under its <thead>, under its <tbody>, the <tr> that
\* are its direct children, and the <tr> under its <tfoot>.
TableElement(thead, tbody, trs, tfoot) ==
    [thead |-> thead, tbody |-> tbody, trs |-> trs, tfoot |-> tfoot]

NoTable == TableElement(<<>>, <<>>, <<>>, <<>>)

\* What agate.Table is built from.
AgateTable(body, column_names) == [rows |-> body, column_names |-> column_names]

NoResult == [kind |-> "none", items |-> <<>>]

-----------------------------------------------------------------------------
(* expand_colspan_rowspan: one <tr> *)

\* err is the ValueError that int() raised, NoExc while none has.
RowState(texts, next_remainder, rem, index, err) ==
    [texts |-> texts, next_remainder |-> next_remainder, remainder |-> rem,
     index |-> index, err |-> err]

\* Requeue with the new entry put at the front of the list.
RequeueFront(next_remainder, prev_i, prev_text, prev_rowspan) ==
    IF prev_rowspan > 1
    THEN <<<<prev_i, prev_text, prev_rowspan - 1>>>> \o next_remainder
    ELSE next_remainder

\* Requeue with the test "prev_rowspan >= 1".
RequeueLastRow(next_remainder, prev_i, prev_text, prev_rowspan) ==
    IF prev_rowspan >= 1
    THEN Append(next_remainder, <<prev_i, prev_text, prev_rowspan - 1>>)
    ELSE next_remainder

\* What is queued for the next row when an entry with nrows rows left is
\* written into the current row.
Requeue(next_remainder, prev_i, prev_text, prev_rowspan) ==
    IF prev_rowspan > 1
    THEN Append(next_remainder, <<prev_i, prev_text, prev_rowspan - 1>>)
    ELSE next_remainder

\* FlushBefore with the test "remainder[0][0] < index".
RECURSIVE FlushBeforeStrict(_)
FlushBeforeStrict(st) ==
    IF st.remainder # <<>> /\ Head(st.remainder)[1] < st.index
    THEN LET prev == Head(st.remainder)
         IN  FlushBeforeStrict(
                 [texts |-> Append(st.texts, prev[2]),
                  next_remainder |->
                      IF prev[3] > 1
                      THEN Append(st.next_remainder, <<prev[1], prev[2], prev[3] - 1>>)
                      ELSE st.next_remainder,
                  remainder |-> Tail(st.remainder),
                  index |-> st.index + 1,
                  err |-> st.err])
    ELSE st

\* while remainder and remainder[0][0] <= index: ...
RECURSIVE FlushBefore(_)
FlushBefore(st) ==
    IF st.remainder # <<>> /\ Head(st.remainder)[1] <= st.index
    THEN LET prev == Head(st.remainder)
         IN  FlushBefore(RowState(
                 Append(st.texts, prev[2]),
                 Requeue(st.next_remainder, prev[1], prev[2], prev[3]),
                 Tail(st.remainder),
                 st.index + 1,
                 st.err))
    ELSE st

\* AppendCell with the text written once whatever the colspan.
AppendCellOnce(st, text, rowspan, n) ==
    IF n <= 0 THEN st
    ELSE [texts |-> Append(st.texts, text),
          next_remainder |->
              IF rowspan > 1
              THEN Append(st.next_remainder, <<st.index, text, rowspan - 1>>)
              ELSE st.next_remainder,
          remainder |-> st.remainder,
          index |-> st.index + 1,
          err |-> st.err]

\* for _ in range(colspan): ...  (n is the number of passes left)
RECURSIVE AppendCell(_, _, _, _)
AppendCell(st, text, rowspan, n) ==
    IF n <= 0 THEN st
    ELSE AppendCell(
             RowState(Append(st.texts, text),
                      Requeue(st.next_remainder, st.index, text, rowspan),
                      st.remainder,
                      st.index + 1,
                      st.err),
             text, rowspan, n - 1)

\* The body of "for td in tds".
ProcessTd(st, td) ==
    LET flushed == FlushBefore(st)
        text == _remove_whitespace(text_getter(td))
        rowspan == SpanOf(td, "rowspan")
        colspan == SpanOf(td, "colspan")
    IN  IF ~rowspan.ok
        THEN [flushed EXCEPT !.err = Exc("ValueError", 270, rowspan.message, NoId)]
        ELSE IF ~colspan.ok
        THEN [flushed EXCEPT !.err = Exc("ValueError", 271, colspan.message, NoId)]
        ELSE AppendCell(flushed, text, rowspan.val, colspan.val)

RECURSIVE ProcessTds(_, _)
ProcessTds(st, tds) ==
    IF tds = <<>> \/ st.err # NoExc THEN st
    ELSE ProcessTds(ProcessTd(st, Head(tds)), Tail(tds))

\* for prev_i, prev_text, prev_rowspan in remainder: ...
RECURSIVE FlushRest(_)
FlushRest(st) ==
    IF st.remainder = <<>> \/ st.err # NoExc THEN st
    ELSE LET prev == Head(st.remainder)
         IN  FlushRest(RowState(
                 Append(st.texts, prev[2]),
                 Requeue(st.next_remainder, prev[1], prev[2], prev[3]),
                 Tail(st.remainder),
                 st.index,
                 st.err))

\* One pass of "for tr in rows" from the pending list rem.
RowStep(rem, tr) ==
    FlushRest(ProcessTds(RowState(<<>>, <<>>, rem, 0, NoExc), parse_td(tr)))

\* TrailingStep with nothing queued again: "if remainder" for "while remainder".
TrailingStepOnce(rem) ==
    [FlushRest(RowState(<<>>, <<>>, rem, 0, NoExc)) EXCEPT !.next_remainder = <<>>]

\* One pass of "while remainder": a row made of the pending texts alone.
TrailingStep(rem) == FlushRest(RowState(<<>>, <<>>, rem, 0, NoExc))


-----------------------------------------------------------------------------
(* expand_colspan_rowspan: the whole function *)

\* The for loop over rows: [err, all_texts, remainder] when it ends.
RECURSIVE ExpandRows(_, _, _)
ExpandRows(trs, rem, texts) ==
    IF trs = <<>> THEN [err |-> NoExc, all_texts |-> texts, remainder |-> rem]
    ELSE LET st == RowStep(rem, Head(trs))
         IN  IF st.err # NoExc
             THEN [err |-> st.err, all_texts |-> texts, remainder |-> rem]
             ELSE ExpandRows(Tail(trs), st.next_remainder, Append(texts, st.texts))

\* The while loop over remainder.
RECURSIVE ExpandTrailing(_, _)
ExpandTrailing(rem, texts) ==
    IF rem = <<>> THEN texts
    ELSE LET st == TrailingStep(rem)
         IN  ExpandTrailing(st.next_remainder, Append(texts, st.texts))

\* [raised |-> TRUE] stands for the ValueError of int(), exc being that
\* exception; value is all_texts.
expand_colspan_rowspan(trs) ==
    LET looped == ExpandRows(trs, <<>>, <<>>)
    IN  IF looped.err # NoExc
        THEN [raised |-> TRUE, exc |-> looped.err, value |-> <<>>]
        ELSE [raised |-> FALSE, exc |-> NoExc,
              value |-> ExpandTrailing(looped.remainder, looped.all_texts)]

-----------------------------------------------------------------------------
(* The inputs of the expansion *)

\* The longest list of <tr> and the largest number of cells in one list.
MaxRows == 3

MaxCells == 3

\* The largest sum of rowspan x colspan over the cells of one list: the
\* number of strings its expansion holds.
MaxArea == 10

RowLetters == <<"A", "B", "C", "D", "E", "F", "G", "H">>

\* The text of the k-th cell of the r-th row as the document holds it:
\* padded and broken over two lines, and different for every cell.
RawText(r, k) == <<" ", RowLetters[r], "\n", DigitChars[k + 1], " ">>

Cell(name, r, k, rowspan, colspan) ==
    [name |-> name, text |-> RawText(r, k), rowspan |-> rowspan, colspan |-> colspan]

\* Span attributes a well-formed document carries: none, "2" or "3".
ValidSpans == {None, <<"2">>, <<"3">>}

\* Span attributes of any kind: empty, not a number, zero, negative, padded.
AnySpans == {None, <<>>, <<"x">>, <<"0">>, <<"-", "1">>, <<"1">>, <<" ", "2">>}

RECURSIVE SumSeq(_)
SumSeq(s) == IF s = <<>> THEN 0 ELSE Head(s) + SumSeq(Tail(s))

\* The numbers of cells per row: at most maxRows rows, at most maxCells cells.
Shapes(maxRows, maxCells) ==
    UNION { { sh \in [1..n -> 0..maxCells] : SumSeq(sh) <= maxCells } :
            n \in 0..maxRows }

\* The list of rows of td cells with sh[r] cells in row r, the cells taking
\* their (rowspan, colspan) attributes from the list sp in source order.
RowList(sh, sp) ==
    [r \in 1..Len(sh) |->
        [k \in 1..sh[r] |->
            Cell("td", r, k,
                 sp[SumSeq(SubSeq(sh, 1, r - 1)) + k][1],
                 sp[SumSeq(SubSeq(sh, 1, r - 1)) + k][2])]]

-----------------------------------------------------------------------------
(* The state machine of expand_colspan_rowspan *)

\* from_html is not running.
IdleHtml ==
    /\ html_soup = <<>>
    /\ table_identifier = [sequence |-> FALSE, items |-> <<>>]
    /\ row_limit = NoLimit
    /\ header = TRUE
    /\ has_column_names = FALSE
    /\ hpc = "idle"
    /\ i = 0
    /\ table_html = NoTable
    /\ head_rows = <<>>
    /\ body_rows = <<>>
    /\ foot_rows = <<>>
    /\ tables = <<>>
    /\ result = NoResult
    /\ hexc = NoExc

RECURSIVE SumArea(_)
SumArea(tds) ==
    IF tds = <<>> THEN 0
    ELSE SpanOf(Head(tds), "rowspan").val * SpanOf(Head(tds), "colspan").val
           + SumArea(Tail(tds))

RECURSIVE SumAreas(_)
SumAreas(trs) == IF trs = <<>> THEN 0 ELSE SumArea(Head(trs)) + SumAreas(Tail(trs))

\* Any list of at most maxRows rows, maxCells cells and MaxArea strings, each
\* span attribute of each cell any value of spans.
InitExpand(maxRows, maxCells, spans) ==
    /\ \E sh \in Shapes(maxRows, maxCells) :
           \E sp \in [1..SumSeq(sh) -> spans \X spans] :
               /\ SumAreas(RowList(sh, sp)) <= MaxArea
               /\ rows = RowList(sh, sp)
    /\ pc = "run"
    /\ ri = 0
    /\ remainder = <<>>
    /\ all_texts = <<>>
    /\ exc = NoException
    /\ IdleHtml

\* One pass of "for tr in rows" (lines 252-286); int() may raise.
ProcessRow ==
    /\ pc = "run"
    /\ ri < Len(rows)
    /\ LET st == RowStep(remainder, rows[ri + 1])
       IN  IF st.err # NoExc
           THEN /\ pc' = "raised"
                /\ exc' = st.err.type
                /\ UNCHANGED <<ri, remainder, all_texts>>
           ELSE /\ all_texts' = Append(all_texts, st.texts)
                /\ remainder' = st.next_remainder
                /\ ri' = ri + 1
                /\ UNCHANGED <<pc, exc>>
    /\ UNCHANGED <<rows, htmlVars>>

\* One pass of "while remainder" (lines 290-298).
TrailingRow ==
    /\ pc = "run"
    /\ ri = Len(rows)
    /\ remainder # <<>>
    /\ LET st == TrailingStep(remainder)
       IN  /\ all_texts' = Append(all_texts, st.texts)
           /\ remainder' = st.next_remainder
    /\ UNCHANGED <<rows, pc, ri, exc, htmlVars>>

\* return all_texts (line 300).
ReturnTexts ==
    /\ pc = "run"
    /\ ri = Len(rows)
    /\ remainder = <<>>
    /\ pc' = "done"
    /\ UNCHANGED <<rows, ri, remainder, all_texts, exc, htmlVars>>

NextExpand == ProcessRow \/ TrailingRow \/ ReturnTexts

-----------------------------------------------------------------------------
(* from_html: one table identifier *)

parse_thead_tr(table) == table.thead

\* select("tbody tr") + find_all("tr", recursive=False)
parse_tbody_tr(table) == table.tbody \o table.trs

parse_tfoot_tr(table) == table.tfoot

\* row_is_all_th with any() for all().
row_has_th(row_html) ==
    \E k \in 1..Len(parse_td(row_html)) : equals_tag(parse_td(row_html)[k], "th")

row_is_all_th(row_html) ==
    \A k \in 1..Len(parse_td(row_html)) : equals_tag(parse_td(row_html)[k], "th")

\* s[0:stop] of a list: a negative stop counts from the end.
SliceTo(s, stop) ==
    LET n == Len(s)
        last == IF stop < 0
                THEN (IF n + stop < 0 THEN 0 ELSE n + stop)
                ELSE (IF stop > n THEN n ELSE stop)
    IN  SubSeq(s, 1, last)

\* Subscript with an index beyond the end taken for the last element.
SubscriptClamped(s, index) ==
    LET n == Len(s)
    IN  IF n = 0 \/ index < 0 - n
        THEN [ok |-> FALSE, value |-> NoTable]
        ELSE IF index >= n THEN [ok |-> TRUE, value |-> s[n]]
        ELSE IF index >= 0 THEN [ok |-> TRUE, value |-> s[index + 1]]
        ELSE [ok |-> TRUE, value |-> s[n + index + 1]]

\* s[index] of a list: a negative index counts from the end;
\* [ok |-> FALSE] stands for the IndexError.
Subscript(s, index) ==
    LET n == Len(s)
    IN  IF 0 <= index /\ index < n
        THEN [ok |-> TRUE, value |-> s[index + 1]]
        ELSE IF 0 - n <= index /\ index < 0
        THEN [ok |-> TRUE, value |-> s[n + index + 1]]
        ELSE [ok |-> FALSE, value |-> NoTable]

\* FindTable with the test for int first and no test for str.
FindTableNoStr(soup, id) ==
    IF id.type = "int"
    THEN IF (0 - Len(soup)) <= id.int /\ id.int < Len(soup)
         THEN [exc |-> NoExc,
               table |-> soup[IF id.int >= 0 THEN id.int + 1
                              ELSE Len(soup) + id.int + 1]]
         ELSE [exc |-> Exc("IndexError", 88, "list index out of range", NoId),
               table |-> NoTable]
    ELSE [exc |-> Exc("Exception", 90, "Could not interpret table identifier", id),
          table |-> NoTable]

\* Lines 84-90: the <table> an identifier selects, or the exception.
FindTable(soup, id) ==
    IF id.type = "str"
    THEN [exc |-> Exc("Exception", 86, "Not implemented yet.", NoId),
          table |-> NoTable]
    ELSE IF id.type = "int"
    THEN LET got == Subscript(soup, id.int)
         IN  IF got.ok
             THEN [exc |-> NoExc, table |-> got.value]
             ELSE [exc |-> Exc("IndexError", 88, "list index out of range", NoId),
                   table |-> NoTable]
    ELSE [exc |-> Exc("Exception", 90, "Could not interpret table identifier", id),
          table |-> NoTable]

\* while body_rows and row_is_all_th(body_rows[0]): head_rows.append(body_rows.pop(0))
RECURSIVE MoveLeadingTh(_, _)
MoveLeadingTh(head, body) ==
    IF body # <<>> /\ row_is_all_th(Head(body))
    THEN MoveLeadingTh(Append(head, Head(body)), Tail(body))
    ELSE [head |-> head, body |-> body]

\* Lines 92-103: the three lists of <tr> of a table.
Classify(table, limit) ==
    LET head == parse_thead_tr(table)
        all_body == parse_tbody_tr(table)
        body == IF limit.none THEN all_body ELSE SliceTo(all_body, limit.n)
        foot == parse_tfoot_tr(table)
        moved == IF head = <<>> THEN MoveLeadingTh(head, body)
                 ELSE [head |-> head, body |-> body]
    IN  [head |-> moved.head, body |-> moved.body, foot |-> foot]

\* The value of kwargs['column_names'] when the caller gives it.
KwColumnNames == <<<<"n", "a", "m", "e">>>>

\* Lines 105-112 once the three calls of expand_colspan_rowspan have ended,
\* head, body and foot being what they returned or raised: the first of the
\* three that raised ends the call; else column_names = head[0] (line 110)
\* and agate.Table(...) (line 112).  The constructor of agate.Table is
\* outside this file and is taken to succeed.
TableOf(head, body, foot, with_header, with_names) ==
    IF head.raised \/ body.raised \/ foot.raised
    THEN [exc |-> IF head.raised THEN head.exc
                  ELSE IF body.raised THEN body.exc
                  ELSE foot.exc,
          table |-> AgateTable(<<>>, <<>>)]
    ELSE IF with_header /\ head.value = <<>>
    THEN [exc |-> Exc("IndexError", 110, "list index out of range", NoId),
          table |-> AgateTable(<<>>, <<>>)]
    ELSE IF ~with_header /\ ~with_names
    THEN [exc |-> Exc("UnboundLocalError", 112, "column_names", NoId),
          table |-> AgateTable(<<>>, <<>>)]
    ELSE [exc |-> NoExc,
          table |-> AgateTable(body.value,
                               IF with_header THEN head.value[1]
                               ELSE KwColumnNames)]

\* Lines 105-112: the agate.Table of the three lists, or the exception.
Build(head_trs, body_trs, foot_trs, with_header, with_names) ==
    TableOf(expand_colspan_rowspan(head_trs),
            expand_colspan_rowspan(body_trs),
            expand_colspan_rowspan(foot_trs),
            with_header, with_names)

\* tables[key] = value on an OrderedDict: a key it holds keeps its place.
SetItem(dict, key, value) ==
    IF \E p \in 1..Len(dict) : dict[p][1] = key
    THEN [p \in 1..Len(dict) |-> IF dict[p][1] = key THEN <<key, value>> ELSE dict[p]]
    ELSE Append(dict, <<key, value>>)

-----------------------------------------------------------------------------
(* The state machine of from_html *)

\* expand_colspan_rowspan is not running on its own.
IdleExpand ==
    /\ rows = <<>>
    /\ pc = "idle"
    /\ ri = 0
    /\ remainder = <<>>
    /\ all_texts = <<>>
    /\ exc = NoException

InitHtml(documents, identifiers, limits) ==
    /\ html_soup \in documents
    /\ table_identifier \in identifiers
    /\ row_limit \in limits
    /\ header \in BOOLEAN
    /\ has_column_names \in BOOLEAN
    /\ hpc = "select"
    /\ i = 0
    /\ table_html = NoTable
    /\ head_rows = <<>>
    /\ body_rows = <<>>
    /\ foot_rows = <<>>
    /\ tables = <<>>
    /\ result = NoResult
    /\ hexc = NoExc
    /\ IdleExpand

\* Lines 83-103: select the table of the next identifier and classify its rows.
SelectTable ==
    /\ hpc = "select"
    /\ i < Len(table_identifier.items)
    /\ LET found == FindTable(html_soup, table_identifier.items[i + 1])
           lists == Classify(found.table, row_limit)
       IN  IF found.exc # NoExc
           THEN /\ hpc' = "raised"
                /\ hexc' = found.exc
                /\ UNCHANGED <<table_html, head_rows, body_rows, foot_rows>>
           ELSE /\ hpc' = "build"
                /\ table_html' = found.table
                /\ head_rows' = lists.head
                /\ body_rows' = lists.body
                /\ foot_rows' = lists.foot
                /\ UNCHANGED hexc
    /\ UNCHANGED <<html_soup, table_identifier, row_limit, header,
                   has_column_names, i, tables, result, expandVars>>

\* Lines 105-112: expand the three lists and store the table.
BuildTable ==
    /\ hpc = "build"
    /\ \E built \in {Build(head_rows, body_rows, foot_rows, header, has_column_names)} :
           IF built.exc # NoExc
           THEN /\ hpc' = "raised"
                /\ hexc' = built.exc
                /\ UNCHANGED <<i, tables>>
           ELSE /\ hpc' = "select"
                /\ tables' = SetItem(tables, table_identifier.items[i + 1], built.table)
                /\ i' = i + 1
                /\ UNCHANGED hexc
    /\ UNCHANGED <<html_soup, table_identifier, row_limit, header, has_column_names,
                   table_html, head_rows, body_rows, foot_rows, result, expandVars>>

\* Lines 114-117: the mapping of a multiple request, else the one table.
ReturnTables ==
    /\ hpc = "select"
    /\ i = Len(table_identifier.items)
    /\ hpc' = "returned"
    /\ result' = IF table_identifier.sequence
                 THEN [kind |-> "MappedSequence", items |-> tables]
                 ELSE [kind |-> "Table", items |-> <<tables[Len(tables)][2]>>]
    /\ UNCHANGED <<html_soup, table_identifier, row_limit, header, has_column_names,
                   i, table_html, head_rows, body_rows, foot_rows, tables, hexc,
                   expandVars>>

NextHtml == SelectTable \/ BuildTable \/ ReturnTables

-----------------------------------------------------------------------------
(* The inputs of from_html *)

\* The most <tr> in the body of a table.
MaxBodyRows == 3

\* The most tables in a document and the most identifiers in a request.
MaxTables == 2

MaxIds == 2

\* The rows number r a body may hold: no cell, one th cell, one td cell with
\* or without rowspan="2", or a th cell and a td cell.
BodyRowKinds == {"empty", "th", "td", "td rowspan", "th td"}

BodyRow(r, kind) ==
    CASE kind = "empty" -> <<>>
      [] kind = "th" -> <<Cell("th", r, 1, None, None)>>
      [] kind = "td" -> <<Cell("td", r, 1, None, None)>>
      [] kind = "td rowspan" -> <<Cell("td", r, 1, <<"2">>, None)>>
      [] kind = "th td" -> <<Cell("th", r, 1, None, None), Cell("td", r, 2, None, None)>>

\* The bodies of at most n rows.
Bodies(n) ==
    UNION { { [r \in 1..m |-> BodyRow(r, kinds[r])] : kinds \in [1..m -> BodyRowKinds] } :
            m \in 0..n }

\* The head row and the foot row carry the letters H and G.
HeadChoices == { <<>>, <<<<Cell("th", 8, 1, None, <<"2">>)>>>> }

FootRows == <<<<Cell("td", 7, 1, None, None)>>>>

\* Tables whose body is under a <tbody> or directly under the <table>.
TableChoices ==
    { TableElement(thead, body, <<>>, FootRows) :
        thead \in HeadChoices, body \in Bodies(MaxBodyRows) }
      \cup { TableElement(thead, <<>>, body, FootRows) :
               thead \in HeadChoices, body \in Bodies(MaxBodyRows) }

Limits == {NoLimit} \cup { Limit(n) : n \in (0 - 1)..MaxBodyRows }

\* One table of any content, asked for as table 0.
SpecRows ==
    /\ InitHtml({ <<t>> : t \in TableChoices },
                { [sequence |-> FALSE, items |-> <<IntId(0)>>] },
                Limits)
    /\ [][NextHtml]_vars

\* Three tables: a head of its own; a leading all-th row; neither.
TablePool ==
    { TableElement(<<<<Cell("th", 8, 1, None, None)>>>>,
                   <<<<Cell("td", 1, 1, <<"2">>, None)>>>>, <<>>, <<>>),
      TableElement(<<>>, <<>>,
                   <<<<Cell("th", 2, 1, None, None)>>, <<Cell("td", 3, 1, None, None)>>>>,
                   <<>>),
      TableElement(<<>>, <<<<Cell("td", 4, 1, None, None)>>>>, <<>>, <<>>) }

\* The lists of at most n elements of set.
ListsOf(set, n) == UNION { [1..m -> set] : m \in 0..n }

\* Integers within and beyond both ends of the document, a name, and None.
IdChoices ==
    { IntId(n) : n \in (0 - MaxTables - 1)..(MaxTables + 1) }
      \cup { StrId(<<"S", "h", "e", "e", "t", "1">>), OtherId(<<"N", "o", "n", "e">>) }

\* One identifier, or a list of identifiers.
Requests ==
    { [sequence |-> FALSE, items |-> <<id>>] : id \in IdChoices }
      \cup { [sequence |-> TRUE, items |-> ids] : ids \in ListsOf(IdChoices, MaxIds) }

\* Documents of the three tables, any request, no row limit.
SpecSelect ==
    /\ InitHtml(ListsOf(TablePool, MaxTables), Requests, {NoLimit})
    /\ [][NextHtml]_vars

\* Rows whose span attributes are absent or valid.
Spec == InitExpand(MaxRows, MaxCells, ValidSpans) /\ [][NextExpand]_vars


\* The longest list and the most cells when span attributes are of any kind.
AttrMaxRows == 2

AttrMaxCells == 2

SpecAttrs ==
    InitExpand(AttrMaxRows, AttrMaxCells, AnySpans) /\ [][NextExpand]_vars

-----------------------------------------------------------------------------
(* What the claims speak of *)

CellText(td) == _remove_whitespace(text_getter(td))

Rowspan(td) == SpanOf(td, "rowspan").val

Colspan(td) == SpanOf(td, "colspan").val

SpansParse(td) == SpanOf(td, "rowspan").ok /\ SpanOf(td, "colspan").ok

\* The number of positions of the list s that hold x.
Count(s, x) == Cardinality({ p \in 1..Len(s) : s[p] = x })

RECURSIVE Repeat(_, _)
Repeat(x, n) == IF n <= 0 THEN <<>> ELSE <<x>> \o Repeat(x, n - 1)

\* Each cell's text, colspan times, in source order.
RECURSIVE Unrolled(_)
Unrolled(tds) ==
    IF tds = <<>> THEN <<>>
    ELSE Repeat(CellText(Head(tds)), Colspan(Head(tds))) \o Unrolled(Tail(tds))

NoRowspan(td) == SpansParse(td) /\ Rowspan(td) <= 1 /\ Colspan(td) >= 1

AllNoRowspan(trs) == \A r \in 1..Len(trs) : \A k \in 1..Len(trs[r]) : NoRowspan(trs[r][k])

\* C1: when no cell has rowspan > 1 and every colspan is >= 1, there is one
\* DenseRow per input row consumed, each the row's cell texts repeated colspan
\* times in source order, nothing is pending and nothing is raised.
C1_ColspanOnly ==
    AllNoRowspan(rows) =>
        /\ pc # "raised"
        /\ remainder = <<>>
        /\ Len(all_texts) = ri
        /\ \A r \in 1..ri : all_texts[r] = Unrolled(rows[r])

C1_Witness ==
    /\ pc = "done"
    /\ AllNoRowspan(rows)
    /\ Len(rows) >= 2
    /\ Len(rows[1]) = 2
    /\ Colspan(rows[1][1]) = 3
    /\ Len(all_texts[1]) = 4
    /\ Count(all_texts[1], CellText(rows[1][1])) = 3


-----------------------------------------------------------------------------
(* The grid of the HTML table model: each cell goes to the first column of  *)
(* its row that no earlier cell holds, and holds rowspan x colspan slots.   *)

\* A slot is [r, c, text, r0, last]: row, column (from 0), the text, the
\* row of the cell it comes from and the last row that cell covers.
SlotsAt(slots, r) == { s \in slots : s.r = r }

ColumnsAt(slots, r) == { s.c : s \in SlotsAt(slots, r) }

FirstFree(slots, r) ==
    CHOOSE c \in 0..Cardinality(slots) :
        /\ c \notin ColumnsAt(slots, r)
        /\ \A b \in 0..(c - 1) : b \in ColumnsAt(slots, r)

CellSlots(td, r, col) ==
    { [r |-> rr, c |-> cc, text |-> CellText(td), r0 |-> r,
       last |-> r + Rowspan(td) - 1] :
        rr \in r..(r + Rowspan(td) - 1), cc \in col..(col + Colspan(td) - 1) }

Collide(a, b) == \E s \in a : \E t \in b : s.r = t.r /\ s.c = t.c

RECURSIVE PlaceCells(_, _, _)
PlaceCells(tds, r, grid) ==
    IF tds = <<>> THEN grid
    ELSE LET new == CellSlots(Head(tds), r, FirstFree(grid.slots, r))
         IN  PlaceCells(Tail(tds), r,
                 [slots |-> grid.slots \cup new,
                  overlap |-> grid.overlap \/ Collide(new, grid.slots)])

RECURSIVE PlaceRows(_, _, _)
PlaceRows(trs, r, grid) ==
    IF r > Len(trs) THEN grid
    ELSE PlaceRows(trs, r + 1, PlaceCells(trs[r], r, grid))

Layout(trs) == PlaceRows(trs, 1, [slots |-> {}, overlap |-> FALSE])

ValidSpan(td) == SpansParse(td) /\ Rowspan(td) >= 1 /\ Colspan(td) >= 1

AllValidSpans(trs) == \A r \in 1..Len(trs) : \A k \in 1..Len(trs[r]) : ValidSpan(trs[r][k])

\* Spans do not overlap, every row covers the columns the first row covers,
\* and no rowspan reaches below the last row.
WellFormed(trs) ==
    /\ AllValidSpans(trs)
    /\ \A r \in 1..Len(trs) : \A k \in 1..Len(trs[r]) :
           r + Rowspan(trs[r][k]) - 1 <= Len(trs)
    /\ LET grid == Layout(trs)
           width == Cardinality(ColumnsAt(grid.slots, 1))
       IN  /\ ~grid.overlap
           /\ \A r \in 1..Len(trs) : ColumnsAt(grid.slots, r) = 0..(width - 1)

\* Row r of the grid, left to right.
GridRow(slots, r) ==
    [c \in 1..Cardinality(ColumnsAt(slots, r)) |->
        (CHOOSE s \in SlotsAt(slots, r) : s.c = c - 1).text]

\* What the grid carries from the rows up to r into row r + 1:
\* (column, text, rows left), the shape of the entries of remainder.
Carried(slots, r) ==
    { <<s.c, s.text, s.last - r>> : s \in { t \in SlotsAt(slots, r + 1) : t.r0 <= r } }

SeqToSet(s) == { s[p] : p \in 1..Len(s) }

\* C2: on a well-formed list of rows every DenseRow is the row of the grid:
\* a cell with rowspan r at column p has its text at column p of the rows
\* below it that it covers, the row's own cells fill the other columns in
\* source order; what is pending after a row is what the grid carries into
\* the next one, so nothing is pending after the last row and no trailing
\* row is produced.
C2_RowspanGrid ==
    WellFormed(rows) =>
        LET slots == Layout(rows).slots
        IN  /\ pc # "raised"
            /\ Len(all_texts) = ri
            /\ \A r \in 1..ri : all_texts[r] = GridRow(slots, r)
            /\ SeqToSet(remainder) = Carried(slots, ri)
            /\ Len(remainder) = Cardinality(Carried(slots, ri))
            /\ ri = Len(rows) => remainder = <<>>

\* A cell at position 1 with rowspan 3 over three rows, the third row with a
\* cell of its own.
C2_Witness ==
    /\ pc = "done"
    /\ WellFormed(rows)
    /\ Len(rows) = 3
    /\ Len(rows[1]) = 2
    /\ Rowspan(rows[1][2]) = 3
    /\ Len(rows[3]) = 1
    /\ Len(all_texts) = 3
    /\ all_texts[2][2] = CellText(rows[1][2])
    /\ all_texts[3] = <<CellText(rows[3][1]), CellText(rows[1][2])>>


-----------------------------------------------------------------------------
(* Trailing rows *)

\* The pending list when the input rows ran out.
PendingAtEnd(trs) == ExpandRows(trs, <<>>, <<>>).remainder

RECURSIVE MaxRowsLeft(_)
MaxRowsLeft(rem) ==
    IF rem = <<>> THEN 0
    ELSE LET rest == MaxRowsLeft(Tail(rem))
         IN  IF Head(rem)[3] > rest THEN Head(rem)[3] ELSE rest

\* The entries of rem that have more than n rows left, n rows later.
RECURSIVE After(_, _)
After(rem, n) ==
    IF rem = <<>> THEN <<>>
    ELSE IF Head(rem)[3] > n
    THEN <<<<Head(rem)[1], Head(rem)[2], Head(rem)[3] - n>>>> \o After(Tail(rem), n)
    ELSE After(Tail(rem), n)

RECURSIVE TextsOf(_)
TextsOf(rem) == IF rem = <<>> THEN <<>> ELSE <<Head(rem)[2]>> \o TextsOf(Tail(rem))

\* Once the rows are consumed: the j-th trailing row holds the texts of the
\* entries that were pending with at least j rows left, in queue order; every
\* pass takes one row off every entry; the function returns after as many
\* trailing rows as the largest number of rows left.
TrailingRows ==
    (pc # "raised" /\ ri = Len(rows)) =>
        LET atEnd == PendingAtEnd(rows)
            passes == Len(all_texts) - Len(rows)
        IN  /\ passes >= 0
            /\ \A j \in 1..passes :
                   all_texts[Len(rows) + j] = TextsOf(After(atEnd, j - 1))
            /\ remainder = After(atEnd, passes)
            /\ pc = "done" => passes = MaxRowsLeft(atEnd)

\* Every pass of either loop brings the return nearer: it consumes a row, or
\* it lowers the largest number of rows left, or it returns or raises.
PassesDecrease ==
    pc = "run" =>
        \/ pc' # "run"
        \/ ri' = ri + 1
        \/ ri' = ri /\ MaxRowsLeft(remainder') < MaxRowsLeft(remainder)

\* The guards of ProcessRow, TrailingRow and ReturnTexts: one of them holds.
CanPass ==
    \/ ri < Len(rows)
    \/ ri = Len(rows) /\ remainder # <<>>
    \/ ri = Len(rows) /\ remainder = <<>>

\* C8: expand_colspan_rowspan terminates on every list of rows: while it runs
\* a pass can be taken and every pass brings the return nearer; its trailing
\* rows are the pending texts in queue order, every pass taking one row off
\* every entry, as many rows as the largest number of rows left when the
\* input ran out.
C8_Terminates ==
    /\ [](pc = "run" => CanPass)
    /\ [][PassesDecrease]_vars
    /\ []TrailingRows

\* Two trailing rows: two entries pending, one of them for two more rows.
C8_Witness ==
    /\ pc = "done"
    /\ Len(PendingAtEnd(rows)) = 2
    /\ MaxRowsLeft(PendingAtEnd(rows)) = 2
    /\ Len(all_texts) = Len(rows) + 2
    /\ Len(all_texts[Len(rows) + 1]) = 2
    /\ Len(all_texts[Len(rows) + 2]) = 1

-----------------------------------------------------------------------------
(* The order of the pending list *)

Ascending(rem) == \A p \in 1..(Len(rem) - 1) : rem[p][1] <= rem[p + 1][1]

\* C9 as stated: after every row, of every list of rows, the pending list is
\* in ascending order of column index.
C9_AlwaysAscending == Ascending(remainder)

\* Whether a cell of tds is written over a column that an entry still
\* pending in rem holds, when the row starts at column index.
RECURSIVE CoversPending(_, _, _)
CoversPending(rem, tds, index) ==
    IF tds = <<>> THEN FALSE
    ELSE LET st == FlushBefore(RowState(<<>>, <<>>, rem, index, NoExc))
             last == st.index + Colspan(Head(tds)) - 1
         IN  \/ \E p \in 1..Len(st.remainder) :
                    st.remainder[p][1] \in st.index..last
             \/ CoversPending(st.remainder, Tail(tds), last + 1)

\* Whether some row of trs covers a column still pending, starting from rem.
RECURSIVE SomeRowCoversPending(_, _)
SomeRowCoversPending(trs, rem) ==
    IF trs = <<>> THEN FALSE
    ELSE \/ CoversPending(rem, parse_td(Head(trs)), 0)
         \/ SomeRowCoversPending(Tail(trs), RowStep(rem, Head(trs)).next_remainder)

\* C9 as amended: the pending list is in ascending order of column index
\* after every row as long as no row consumed so far has a cell written over
\* a column that a pending span still holds.
C9_AscendingUnlessCovered ==
    ~SomeRowCoversPending(SubSeq(rows, 1, ri), <<>>) => Ascending(remainder)

\* After the second row: an entry carried over from the first row, then an
\* entry of the second row's own cell.
C9_Witness ==
    /\ ri = 2
    /\ Len(rows[1]) >= 1
    /\ Len(rows[2]) >= 1
    /\ ~SomeRowCoversPending(SubSeq(rows, 1, ri), <<>>)
    /\ Len(remainder) = 2
    /\ remainder[1][2] = CellText(rows[1][1])
    /\ remainder[2][2] = CellText(rows[2][1])
    /\ remainder[1][1] < remainder[2][1]

-----------------------------------------------------------------------------
(* Span conservation *)

RECURSIVE SumLen(_)
SumLen(texts) == IF texts = <<>> THEN 0 ELSE Len(Head(texts)) + SumLen(Tail(texts))

\* C10: when every rowspan and colspan is >= 1, every pending entry has at
\* least one row left, and on return the text of the cell of row r with spans
\* (rowspan, colspan) stands colspan times in each of the DenseRows
\* r .. r + rowspan - 1 and in no other, so that the output holds the sum of
\* rowspan x colspan strings.  (Every cell of the input has a text of its own.)
C10_SpanConservation ==
    AllValidSpans(rows) =>
        /\ \A p \in 1..Len(remainder) : remainder[p][3] >= 1
        /\ pc = "done" =>
              /\ SumLen(all_texts) = SumAreas(rows)
              /\ \A r \in 1..Len(rows) : \A k \in 1..Len(rows[r]) :
                     \A j \in 1..Len(all_texts) :
                         Count(all_texts[j], CellText(rows[r][k])) =
                             IF r <= j /\ j <= r + Rowspan(rows[r][k]) - 1
                             THEN Colspan(rows[r][k])
                             ELSE 0
              /\ \A r \in 1..Len(rows) : \A k \in 1..Len(rows[r]) :
                     Len(all_texts) >= r + Rowspan(rows[r][k]) - 1

\* A malformed list: the second row is written over the column the first
\* row's rowspan holds, and a span reaches below the last row.
C10_Witness ==
    /\ pc = "done"
    /\ ~WellFormed(rows)
    /\ SomeRowCoversPending(rows, <<>>)
    /\ Len(all_texts) > Len(rows)
    /\ SumLen(all_texts) >= 6

-----------------------------------------------------------------------------
(* Invalid span attributes *)

\* An attribute that is absent, does not parse, or is zero or negative.
InvalidSpan(td, attr) == ~SpanOf(td, attr).ok \/ SpanOf(td, attr).val <= 0

\* The cell with every invalid span attribute taken off, which reads as 1.
AsIfOne(td) ==
    [td EXCEPT !.rowspan = IF InvalidSpan(td, "rowspan") THEN None ELSE @,
               !.colspan = IF InvalidSpan(td, "colspan") THEN None ELSE @]

AsIfOneRows(trs) == [r \in 1..Len(trs) |-> [k \in 1..Len(trs[r]) |-> AsIfOne(trs[r][k])]]

\* C5: a cell whose rowspan or colspan is absent, unparseable, zero or
\* negative is expanded as if that span were 1, and nothing is raised.
C5_InvalidSpanIsOne ==
    pc # "run" =>
        /\ pc = "done"
        /\ all_texts = expand_colspan_rowspan(AsIfOneRows(rows)).value


-----------------------------------------------------------------------------
(* The row limit *)

\* C3: with row_limit = n on a table whose body has more than n rows, the
\* table that is returned has exactly n rows.
C3_RowLimit ==
    (/\ hpc = "returned"
     /\ result.kind = "Table"
     /\ ~row_limit.none
     /\ row_limit.n >= 0
     /\ Len(parse_tbody_tr(html_soup[1])) > row_limit.n)
        => Len(result.items[1].rows) = row_limit.n

-----------------------------------------------------------------------------
(* The implicit header *)

AllTh(tr) == \A k \in 1..Len(tr) : tr[k].name = "th"

\* The length of the longest leading run of all-th rows of trs.
LeadingTh(trs) ==
    CHOOSE m \in 0..Len(trs) :
        /\ \A r \in 1..m : AllTh(trs[r])
        /\ m = Len(trs) \/ ~AllTh(trs[m + 1])

\* The body rows of the selected table as the fallback finds them: the rows
\* of the table, cut to the row limit when one is given.
LimitedBody ==
    IF row_limit.none THEN parse_tbody_tr(table_html)
    ELSE SliceTo(parse_tbody_tr(table_html), row_limit.n)

TextsOfRow(tr) == { CellText(tr[k]) : k \in 1..Len(tr) }

\* C4: when the table has no head rows, the longest leading run of all-th
\* body rows is the head, in order, and the rows after it are the body, in
\* order; when it has head rows, no body row is moved.  The table returned
\* holds no text of a moved row, and holds the texts of every row that stayed
\* in the row of the same rank.
C4_ImplicitHeader ==
    LET moved == IF parse_thead_tr(table_html) = <<>> THEN LeadingTh(LimitedBody) ELSE 0
    IN  /\ (hpc = "build" \/ hpc = "returned") =>
              /\ head_rows = parse_thead_tr(table_html) \o SubSeq(LimitedBody, 1, moved)
              /\ body_rows = SubSeq(LimitedBody, moved + 1, Len(LimitedBody))
        /\ (hpc = "returned" /\ result.kind = "Table") =>
              /\ \A r \in 1..moved : \A j \in 1..Len(result.items[1].rows) :
                     TextsOfRow(LimitedBody[r]) \cap SeqToSet(result.items[1].rows[j]) = {}
              /\ \A r \in (moved + 1)..Len(LimitedBody) :
                     TextsOfRow(LimitedBody[r])
                         \subseteq SeqToSet(result.items[1].rows[r - moved])

\* Two all-th rows moved, the third row, a th and a td cell, stays.
C4_Witness ==
    /\ hpc = "returned"
    /\ parse_thead_tr(table_html) = <<>>
    /\ Len(LimitedBody) = 3
    /\ LeadingTh(LimitedBody) = 2
    /\ Len(LimitedBody[1]) = 1
    /\ Len(LimitedBody[3]) = 2
    /\ Len(head_rows) = 2
    /\ Len(result.items[1].rows) = 1

-----------------------------------------------------------------------------
(* Table identifiers *)

Ids == table_identifier.items

NotImplemented == Exc("Exception", 86, "Not implemented yet.", NoId)

CouldNotInterpret(id) == Exc("Exception", 90, "Could not interpret table identifier", id)

OutOfRange == Exc("IndexError", 88, "list index out of range", NoId)

\* The request holds an identifier at position p that makes the call raise
\* error: the call returns nothing, selects no table for position p, never
\* gets past position p, and when it is position p that raises, it raises
\* error.
RaisesAt(p, error) ==
    /\ hpc # "returned"
    /\ result = NoResult
    /\ i < p
    /\ hpc = "build" => i < p - 1
    /\ (hpc = "raised" /\ i = p - 1) => hexc = error

\* C6: a string identifier raises the not-implemented error and an identifier
\* that is neither int nor str raises the error that names it, at whatever
\* position of the request it stands (when the call gets that far), and the
\* call then returns no table, not even those built before.
C6_BadIdentifier ==
    \A p \in 1..Len(Ids) :
        /\ Ids[p].type = "str" => RaisesAt(p, NotImplemented)
        /\ Ids[p].type = "other" => RaisesAt(p, CouldNotInterpret(Ids[p]))

\* The second identifier is a name: the table of the first was built and is
\* not returned.
C6_Witness ==
    /\ hpc = "raised"
    /\ table_identifier.sequence
    /\ i = 1
    /\ Len(tables) = 1
    /\ Ids[2].type = "str"
    /\ hexc = NotImplemented
    /\ result = NoResult

\* C7 as stated: an integer identifier that is not in 0..n-1, n the number
\* of tables, makes the call raise the out-of-range error.
C7_OnlyZeroBased ==
    \A p \in 1..Len(Ids) :
        (Ids[p].type = "int" /\ Ids[p].int \notin 0..(Len(html_soup) - 1))
            => RaisesAt(p, OutOfRange)

\* C7 as amended: an integer identifier that is not in -n..n-1 makes the call
\* raise the out-of-range error; one in -n..-1 selects the table that far
\* from the end of the document.
C7_OutOfRange ==
    /\ \A p \in 1..Len(Ids) :
           (/\ Ids[p].type = "int"
            /\ Ids[p].int \notin (0 - Len(html_soup))..(Len(html_soup) - 1))
               => RaisesAt(p, OutOfRange)
    /\ (hpc = "build" /\ Ids[i + 1].int < 0) =>
           table_html = html_soup[Len(html_soup) + Ids[i + 1].int + 1]

\* The second identifier is one past the last table of two.
C7_Witness ==
    /\ hpc = "raised"
    /\ Len(html_soup) = 2
    /\ i = 1
    /\ Len(tables) = 1
    /\ Ids[2] = IntId(2)
    /\ hexc = OutOfRange
    /\ result = NoResult

=============================================================================
